---- MODULE Spec2Model ----
(***************************************************************************)
(* The instruction execution engine of the CPU emulator.                   *)
(*                                                                         *)
(* Spec    : src/till-128.rs, CPU::execute over u128 registers, the flag   *)
(*           map and the memory vector, at the widths of enum CpuWidth.    *)
(* SpecBO  : src/brain-overflow-all.rs, the read-eval loop of main over    *)
(*           the BigUint engine (CPU::add .. CPU::store).                  *)
(*                                                                         *)
(* Integer sizes are scaled so that TLC can enumerate them: the storage    *)
(* integer u128 has WordBits bits, usize and the Bit64 width have          *)
(* WordBits - 1, the Bit32 width has WordBits - 2.  Their order, and every *)
(* truncation between them, is the one of the source.                      *)
(*                                                                         *)
(* An instruction is the sequence of its whitespace-separated tokens       *)
(* (split_whitespace); a token is a sequence of one-character strings.     *)
(***************************************************************************)
EXTENDS Integers, Sequences, FiniteSets, TLC

VARIABLES registers, bits, flags, memory, outcome

vars == <<registers, bits, flags, memory, outcome>>

\* ------------------------------------------------------------ integer sizes

\* bits of the storage integer (u128 in the source)
WordBits == 2

\* bits of usize, the type of a memory index (64-bit target)
UsizeBits == WordBits - 1

\* u128::MAX
U128_MAX == 2^WordBits - 1

\* the bit count of each CpuWidth variant
WidthOf(b) ==
    CASE b = "Bit32" -> WordBits - 2
      [] b = "Bit64" -> WordBits - 1
      [] b = "Bit128" -> WordBits

CpuWidth == {"Bit32", "Bit64", "Bit128"}

\* the variants that have at least one bit at this scale
CpuWidths == {b \in CpuWidth : WidthOf(b) >= 1}

\* ------------------------------------------------------------ bit operations

\* bit i (0 = least significant) of the natural number x
Bit(x, i) == (x \div 2^i) % 2

RECURSIVE BitFold(_, _, _, _)
\* the n-bit number whose bit i is table[bit i of a][bit i of b]
BitFold(table, a, b, n) ==
    IF n = 0 THEN 0
    ELSE BitFold(table, a, b, n - 1)
         + table[Bit(a, n - 1) + 1][Bit(b, n - 1) + 1] * 2^(n - 1)

\* a & b, a | b, a ^ b and !a on the storage integer
BitAnd(a, b) == BitFold(<<<<0, 0>>, <<0, 1>>>>, a, b, WordBits)
BitOr(a, b) == BitFold(<<<<0, 1>>, <<1, 1>>>>, a, b, WordBits)
BitXor(a, b) == BitFold(<<<<0, 1>>, <<1, 0>>>>, a, b, WordBits)
BitNot(a) == U128_MAX - a

\* ------------------------------------------------------------ text

\* char::to_uppercase on the letters the instruction tokens use
ToUpperChar(c) ==
    CASE c = "m" -> "M"
      [] c = "o" -> "O"
      [] c = "v" -> "V"
      [] c = "a" -> "A"
      [] c = "d" -> "D"
      [] OTHER -> c

\* str::to_uppercase
to_uppercase(s) == [i \in 1..Len(s) |-> ToUpperChar(s[i])]

RECURSIVE trim_end_matches(_, _)
\* str::trim_end_matches(c): s without its trailing run of c
trim_end_matches(s, c) ==
    IF Len(s) > 0 /\ s[Len(s)] = c
    THEN trim_end_matches(SubSeq(s, 1, Len(s) - 1), c)
    ELSE s

\* str::starts_with
starts_with(s, prefix) ==
    Len(s) >= Len(prefix) /\ SubSeq(s, 1, Len(prefix)) = prefix

\* char::to_digit(16); 99 stands for None
DigitVal(c) ==
    CASE c = "0" -> 0 [] c = "1" -> 1 [] c = "2" -> 2 [] c = "3" -> 3
      [] c = "4" -> 4 [] c = "5" -> 5 [] c = "6" -> 6 [] c = "7" -> 7
      [] c = "8" -> 8 [] c = "9" -> 9
      [] c \in {"a", "A"} -> 10 [] c \in {"b", "B"} -> 11
      [] c \in {"c", "C"} -> 12 [] c \in {"d", "D"} -> 13
      [] c \in {"e", "E"} -> 14 [] c \in {"f", "F"} -> 15
      [] OTHER -> 99

RECURSIVE ParseDigits(_, _, _, _)
\* the digit loop of from_str_radix: -1 for a character that is no digit of the
\* radix (InvalidDigit) or a value above max (PosOverflow)
ParseDigits(s, radix, acc, max) ==
    IF s = <<>> THEN acc
    ELSE IF DigitVal(s[1]) >= radix THEN -1
    ELSE IF acc * radix + DigitVal(s[1]) > max THEN -1
    ELSE ParseDigits(Tail(s), radix, acc * radix + DigitVal(s[1]), max)

\* u128::from_str_radix, and str::parse::<u128> at radix 10: an optional "+",
\* then at least one digit; no "-" for an unsigned type.  -1 stands for Err.
from_str_radix(s, radix) ==
    LET digits == IF Len(s) > 0 /\ s[1] = "+" THEN Tail(s) ELSE s
    IN  IF digits = <<>> THEN -1 ELSE ParseDigits(digits, radix, 0, U128_MAX)

\* ------------------------------------------------------------ till-128.rs: CPU

\* format!("R{}", i) for a one-digit i
RegName(i) == <<"R", <<"0", "1", "2", "3", "4", "5", "6", "7", "8", "9">>[i + 1]>>

FlagNames == {"ZERO", "CARRY", "OVERFLOW", "SIGN"}

\* CPU::new: registers R1..Rreg_count at 0, the four flags false, mem_size zero cells
new(b, reg_count, mem_size) ==
    /\ registers = [r \in {RegName(i) : i \in 1..reg_count} |-> 0]
    /\ bits = b
    /\ flags = [f \in FlagNames |-> FALSE]
    /\ memory = [a \in 1..mem_size |-> 0]

\* CPU::mask
mask ==
    CASE bits = "Bit32" -> 2^WidthOf("Bit32") - 1
      [] bits = "Bit64" -> 2^WidthOf("Bit64") - 1
      [] bits = "Bit128" -> U128_MAX

\* to_masked without the mask: the value is stored as computed
to_masked_unmasked(value) == value

\* CPU::to_masked
to_masked(value) == BitAnd(value, mask)

\* CPU::set_flag: writes a flag that exists, ignores any other name
set_flag(fl, name, value) ==
    IF name \in DOMAIN fl THEN [fl EXCEPT ![name] = value] ELSE fl

\* Result<u128, String> of get_value
OkVal(v) == [ok |-> TRUE, v |-> v, err |-> ""]
ErrVal(e) == [ok |-> FALSE, v |-> 0, err |-> e]

\* CPU::get_value
get_value(operand) ==
    IF starts_with(operand, <<"R">>)
    THEN IF operand \in DOMAIN registers
         THEN OkVal(registers[operand])
         ELSE ErrVal("Register not found")
    ELSE IF starts_with(operand, <<"0", "x">>)
    THEN LET n == from_str_radix(SubSeq(operand, 3, Len(operand)), 16)
         IN  IF n < 0 THEN ErrVal("Invalid hex") ELSE OkVal(n)
    ELSE LET n == from_str_radix(operand, 10)
         IN  IF n < 0 THEN ErrVal("Invalid number") ELSE OkVal(n)

\* HashMap::insert
Insert(map, k, v) == [x \in DOMAIN map \cup {k} |-> IF x = k THEN v ELSE map[x]]

\* Vec::get(addr).copied().unwrap_or(0) on the 0-indexed memory
MemGetOr0(addr) == IF addr < Len(memory) THEN memory[addr + 1] ELSE 0

\* u128 as usize
as_usize(v) == v % 2^UsizeBits

\* return Err(msg): nothing is written
Err(msg) ==
    /\ outcome' = msg
    /\ UNCHANGED <<registers, bits, flags, memory>>

\* a panic (slice index out of range, HashMap index of a missing key, shift
\* overflow under overflow checks) unwinds out of execute: the process ends
Panic ==
    /\ outcome' = "panic"
    /\ UNCHANGED <<registers, bits, flags, memory>>

\* Ok(()) after self.registers.insert(reg, value)
WriteReg(reg, value) ==
    /\ registers' = Insert(registers, reg, value)
    /\ outcome' = "Ok"
    /\ UNCHANGED <<bits, memory>>

\* parts[i] exists (the source indexes parts from 0)
HasPart(parts, i) == Len(parts) > i
Part(parts, i) == parts[i + 1]

\* ------------------------------------------------------------ till-128.rs: execute

\* the opcode strings of the match in execute
MOV == <<"M", "O", "V">>
ADD == <<"A", "D", "D">>
SUB == <<"S", "U", "B">>
MUL == <<"M", "U", "L">>
DIV == <<"D", "I", "V">>
AND == <<"A", "N", "D">>
OR == <<"O", "R">>
XOR == <<"X", "O", "R">>
NOT == <<"N", "O", "T">>
SHL == <<"S", "H", "L">>
SHR == <<"S", "H", "R">>
LOAD == <<"L", "O", "A", "D">>
STORE == <<"S", "T", "O", "R", "E">>

Opcodes == {MOV, ADD, SUB, MUL, DIV, AND, OR, XOR, NOT, SHL, SHR, LOAD, STORE}

\* "MOV" arm
exec_MOV(parts) ==
    IF ~HasPart(parts, 1) \/ ~HasPart(parts, 2) THEN Panic
    ELSE LET reg == trim_end_matches(Part(parts, 1), ",")
             val == get_value(Part(parts, 2))
         IN  IF ~val.ok THEN Err(val.err)
             ELSE /\ WriteReg(reg, to_masked(val.v))
                  /\ UNCHANGED flags

\* the "ADD" arm writing the sum to the register named by the second operand
\* when that operand is a register
exec_ADD_into_source(parts) ==
    IF ~HasPart(parts, 1) \/ ~HasPart(parts, 2) THEN Panic
    ELSE LET reg == trim_end_matches(Part(parts, 1), ",")
             val == get_value(Part(parts, 2))
         IN  IF ~val.ok THEN Err(val.err)
             ELSE IF reg \notin DOMAIN registers THEN Panic
             ELSE LET sum == registers[reg] + val.v
                      res == sum % 2^WordBits
                      carry == sum > U128_MAX
                      dst == IF starts_with(Part(parts, 2), <<"R">>)
                             THEN Part(parts, 2) ELSE reg
                  IN  /\ flags' = set_flag(set_flag(flags, "CARRY", carry),
                                           "ZERO", res = 0)
                      /\ WriteReg(dst, to_masked(res))

\* "ADD" arm: u128::overflowing_add, then the flags, then the masked write
exec_ADD(parts) ==
    IF ~HasPart(parts, 1) \/ ~HasPart(parts, 2) THEN Panic
    ELSE LET reg == trim_end_matches(Part(parts, 1), ",")
             val == get_value(Part(parts, 2))
         IN  IF ~val.ok THEN Err(val.err)
             ELSE IF reg \notin DOMAIN registers THEN Panic
             ELSE LET sum == registers[reg] + val.v
                      res == sum % 2^WordBits
                      carry == sum > U128_MAX
                  IN  /\ flags' = set_flag(set_flag(flags, "CARRY", carry),
                                           "ZERO", res = 0)
                      /\ WriteReg(reg, to_masked(res))

\* "SUB" arm: u128::overflowing_sub
exec_SUB(parts) ==
    IF ~HasPart(parts, 1) \/ ~HasPart(parts, 2) THEN Panic
    ELSE LET reg == trim_end_matches(Part(parts, 1), ",")
             val == get_value(Part(parts, 2))
         IN  IF ~val.ok THEN Err(val.err)
             ELSE IF reg \notin DOMAIN registers THEN Panic
             ELSE LET res == (registers[reg] - val.v) % 2^WordBits
                      borrow == registers[reg] < val.v
                  IN  /\ flags' = set_flag(set_flag(flags, "CARRY", borrow),
                                           "ZERO", res = 0)
                      /\ WriteReg(reg, to_masked(res))

\* the "MUL" arm with u128::overflowing_mul, setting CARRY as ADD does
exec_MUL_sets_carry(parts) ==
    IF ~HasPart(parts, 1) \/ ~HasPart(parts, 2) THEN Panic
    ELSE LET reg == trim_end_matches(Part(parts, 1), ",")
             val == get_value(Part(parts, 2))
         IN  IF ~val.ok THEN Err(val.err)
             ELSE IF reg \notin DOMAIN registers THEN Panic
             ELSE /\ flags' = set_flag(flags, "CARRY",
                                       registers[reg] * val.v > U128_MAX)
                  /\ WriteReg(reg, to_masked((registers[reg] * val.v) % 2^WordBits))

\* "MUL" arm: u128::wrapping_mul
exec_MUL(parts) ==
    IF ~HasPart(parts, 1) \/ ~HasPart(parts, 2) THEN Panic
    ELSE LET reg == trim_end_matches(Part(parts, 1), ",")
             val == get_value(Part(parts, 2))
         IN  IF ~val.ok THEN Err(val.err)
             ELSE IF reg \notin DOMAIN registers THEN Panic
             ELSE /\ WriteReg(reg, to_masked((registers[reg] * val.v) % 2^WordBits))
                  /\ UNCHANGED flags

\* the "DIV" arm clearing the target register before it reports a zero divisor
exec_DIV_write_first(parts) ==
    IF ~HasPart(parts, 1) \/ ~HasPart(parts, 2) THEN Panic
    ELSE LET reg == trim_end_matches(Part(parts, 1), ",")
             val == get_value(Part(parts, 2))
         IN  IF ~val.ok THEN Err(val.err)
             ELSE IF val.v = 0
             THEN /\ registers' = Insert(registers, reg, 0)
                  /\ outcome' = "Division by zero"
                  /\ UNCHANGED <<bits, flags, memory>>
             ELSE IF reg \notin DOMAIN registers THEN Panic
             ELSE /\ WriteReg(reg, to_masked(registers[reg] \div val.v))
                  /\ UNCHANGED flags

\* "DIV" arm
exec_DIV(parts) ==
    IF ~HasPart(parts, 1) \/ ~HasPart(parts, 2) THEN Panic
    ELSE LET reg == trim_end_matches(Part(parts, 1), ",")
             val == get_value(Part(parts, 2))
         IN  IF ~val.ok THEN Err(val.err)
             ELSE IF val.v = 0 THEN Err("Division by zero")
             ELSE IF reg \notin DOMAIN registers THEN Panic
             ELSE /\ WriteReg(reg, to_masked(registers[reg] \div val.v))
                  /\ UNCHANGED flags

\* "AND" arm
exec_AND(parts) ==
    IF ~HasPart(parts, 1) \/ ~HasPart(parts, 2) THEN Panic
    ELSE LET reg == trim_end_matches(Part(parts, 1), ",")
             val == get_value(Part(parts, 2))
         IN  IF ~val.ok THEN Err(val.err)
             ELSE IF reg \notin DOMAIN registers THEN Panic
             ELSE /\ WriteReg(reg, to_masked(BitAnd(registers[reg], val.v)))
                  /\ UNCHANGED flags

\* "OR" arm
exec_OR(parts) ==
    IF ~HasPart(parts, 1) \/ ~HasPart(parts, 2) THEN Panic
    ELSE LET reg == trim_end_matches(Part(parts, 1), ",")
             val == get_value(Part(parts, 2))
         IN  IF ~val.ok THEN Err(val.err)
             ELSE IF reg \notin DOMAIN registers THEN Panic
             ELSE /\ WriteReg(reg, to_masked(BitOr(registers[reg], val.v)))
                  /\ UNCHANGED flags

\* "XOR" arm
exec_XOR(parts) ==
    IF ~HasPart(parts, 1) \/ ~HasPart(parts, 2) THEN Panic
    ELSE LET reg == trim_end_matches(Part(parts, 1), ",")
             val == get_value(Part(parts, 2))
         IN  IF ~val.ok THEN Err(val.err)
             ELSE IF reg \notin DOMAIN registers THEN Panic
             ELSE /\ WriteReg(reg, to_masked(BitXor(registers[reg], val.v)))
                  /\ UNCHANGED flags

\* "NOT" arm: parts[1] is used as it stands, without trim_end_matches
exec_NOT(parts) ==
    IF ~HasPart(parts, 1) THEN Panic
    ELSE LET reg == Part(parts, 1)
         IN  IF reg \notin DOMAIN registers THEN Panic
             ELSE /\ WriteReg(reg, to_masked(BitNot(registers[reg])))
                  /\ UNCHANGED flags

\* "SHL" arm: `u128 << u128`.  A shift amount of WordBits or more panics under
\* overflow checks (debug build) and is reduced modulo the bit size without them
exec_SHL(parts) ==
    IF ~HasPart(parts, 1) \/ ~HasPart(parts, 2) THEN Panic
    ELSE LET reg == trim_end_matches(Part(parts, 1), ",")
             val == get_value(Part(parts, 2))
         IN  IF ~val.ok THEN Err(val.err)
             ELSE IF reg \notin DOMAIN registers THEN Panic
             ELSE IF val.v >= WordBits
             THEN \/ Panic
                  \/ /\ WriteReg(reg, to_masked(
                            (registers[reg] * 2^(val.v % WordBits)) % 2^WordBits))
                     /\ UNCHANGED flags
             ELSE /\ WriteReg(reg, to_masked((registers[reg] * 2^val.v) % 2^WordBits))
                  /\ UNCHANGED flags

\* "SHR" arm: `u128 >> u128`, as SHL
exec_SHR(parts) ==
    IF ~HasPart(parts, 1) \/ ~HasPart(parts, 2) THEN Panic
    ELSE LET reg == trim_end_matches(Part(parts, 1), ",")
             val == get_value(Part(parts, 2))
         IN  IF ~val.ok THEN Err(val.err)
             ELSE IF reg \notin DOMAIN registers THEN Panic
             ELSE IF val.v >= WordBits
             THEN \/ Panic
                  \/ /\ WriteReg(reg, to_masked(
                            registers[reg] \div 2^(val.v % WordBits)))
                     /\ UNCHANGED flags
             ELSE /\ WriteReg(reg, to_masked(registers[reg] \div 2^val.v))
                  /\ UNCHANGED flags

\* the "LOAD" arm taking the value out of memory: the cell read is left at 0
exec_LOAD_and_clear(parts) ==
    IF ~HasPart(parts, 1) \/ ~HasPart(parts, 2) THEN Panic
    ELSE LET reg == trim_end_matches(Part(parts, 1), ",")
             val == get_value(Part(parts, 2))
         IN  IF ~val.ok THEN Err(val.err)
             ELSE /\ registers' = Insert(registers, reg, MemGetOr0(as_usize(val.v)))
                  /\ memory' = [a \in DOMAIN memory |->
                                   IF a = as_usize(val.v) + 1 THEN 0 ELSE memory[a]]
                  /\ outcome' = "Ok"
                  /\ UNCHANGED <<bits, flags>>

\* "LOAD" arm: the address is cast to usize; a cell that does not exist reads as 0
exec_LOAD(parts) ==
    IF ~HasPart(parts, 1) \/ ~HasPart(parts, 2) THEN Panic
    ELSE LET reg == trim_end_matches(Part(parts, 1), ",")
             val == get_value(Part(parts, 2))
         IN  IF ~val.ok THEN Err(val.err)
             ELSE /\ WriteReg(reg, MemGetOr0(as_usize(val.v)))
                  /\ UNCHANGED flags

\* the "STORE" arm writing the address, not the register's value, to the cell
exec_STORE_address(parts) ==
    IF ~HasPart(parts, 1) \/ ~HasPart(parts, 2) THEN Panic
    ELSE LET reg == trim_end_matches(Part(parts, 1), ",")
             val == get_value(Part(parts, 2))
         IN  IF ~val.ok THEN Err(val.err)
             ELSE LET addr == as_usize(val.v)
                  IN  IF addr >= Len(memory) THEN Err("Memory out of bounds")
                      ELSE IF reg \notin DOMAIN registers THEN Panic
                      ELSE /\ memory' = [memory EXCEPT ![addr + 1] = addr]
                           /\ outcome' = "Ok"
                           /\ UNCHANGED <<registers, bits, flags>>

\* "STORE" arm
exec_STORE(parts) ==
    IF ~HasPart(parts, 1) \/ ~HasPart(parts, 2) THEN Panic
    ELSE LET reg == trim_end_matches(Part(parts, 1), ",")
             val == get_value(Part(parts, 2))
         IN  IF ~val.ok THEN Err(val.err)
             ELSE LET addr == as_usize(val.v)
                  IN  IF addr >= Len(memory) THEN Err("Memory out of bounds")
                      ELSE IF reg \notin DOMAIN registers THEN Panic
                      ELSE /\ memory' = [memory EXCEPT ![addr + 1] = registers[reg]]
                           /\ outcome' = "Ok"
                           /\ UNCHANGED <<registers, bits, flags>>

\* parts[0].to_uppercase() of a line that has tokens
OpOf(parts) == IF parts = <<>> THEN <<>> ELSE to_uppercase(Part(parts, 0))

\* the process has not ended in a panic: the caller can call execute
Running == outcome # "panic"

\* CPU::execute on parts, the tokens of the instruction (split_whitespace),
\* called by a running process
execute(parts) ==
    \/ Running /\ parts = <<>> /\ Err("Empty instruction")
    \/ Running /\ OpOf(parts) = MOV /\ exec_MOV(parts)
    \/ Running /\ OpOf(parts) = ADD /\ exec_ADD(parts)
    \/ Running /\ OpOf(parts) = SUB /\ exec_SUB(parts)
    \/ Running /\ OpOf(parts) = MUL /\ exec_MUL(parts)
    \/ Running /\ OpOf(parts) = DIV /\ exec_DIV(parts)
    \/ Running /\ OpOf(parts) = AND /\ exec_AND(parts)
    \/ Running /\ OpOf(parts) = OR /\ exec_OR(parts)
    \/ Running /\ OpOf(parts) = XOR /\ exec_XOR(parts)
    \/ Running /\ OpOf(parts) = NOT /\ exec_NOT(parts)
    \/ Running /\ OpOf(parts) = SHL /\ exec_SHL(parts)
    \/ Running /\ OpOf(parts) = SHR /\ exec_SHR(parts)
    \/ Running /\ OpOf(parts) = LOAD /\ exec_LOAD(parts)
    \/ Running /\ OpOf(parts) = STORE /\ exec_STORE(parts)
    \/ /\ Running /\ parts # <<>> /\ OpOf(parts) \notin Opcodes
       /\ Err("Unknown instruction")

\* ------------------------------------------------------------ inputs

RECURSIVE ToDec(_)
\* the decimal literal of n
ToDec(n) ==
    IF n < 10 THEN <<RegName(n)[2]>>
    ELSE ToDec(n \div 10) \o <<RegName(n % 10)[2]>>

\* the values given as immediates: 0, 1, 2, the first value past the Bit64
\* width and past usize, and the largest u128
ImmValues == {0, 1, 2, 2^WidthOf("Bit64"), U128_MAX}

R1 == RegName(1)
R2 == RegName(2)
R3 == RegName(3)

\* parts[1]: a register of the file and a name that is not in the file after
\* construction
FirstTokens == {R1, R2}

\* parts[2] that get_value resolves: a register or a decimal immediate
GoodSecondTokens == {R1} \cup {ToDec(n) : n \in ImmValues}

\* parts[2] that get_value rejects: a name never in the file, a negative literal
BadSecondTokens == {R3, <<"-", "1">>}

\* other spellings: lower case, a trailing comma, hex, an explicit sign, a
\* literal one past u128::MAX, hex without digits, an opcode that is none
OtherInstructions ==
    { <<<<"m", "o", "v">>, R1 \o <<",">>, <<"0", "x", "1">>>>,
      <<ADD, R1 \o <<",">>, <<"+", "1">>>>,
      <<NOT, R1 \o <<",">>>>,
      <<MOV, R1, ToDec(U128_MAX + 1)>>,
      <<MOV, R1, <<"0", "x">>>>,
      <<MOV, R1, <<"0", "x", "F", "F">>>>,
      <<<<"J", "M", "P">>, R1, <<"1">>>>,
      <<<<"J", "M", "P">>>> }

Instructions ==
    {<<>>} \cup {<<o>> : o \in Opcodes} \cup {<<o, R1>> : o \in Opcodes}
        \cup {<<o, a, b>> : o \in Opcodes, a \in FirstTokens, b \in GoodSecondTokens}
        \cup {<<o, R1, b>> : o \in Opcodes, b \in BadSecondTokens}
        \cup OtherInstructions

\* the configurations CPU::new is called with
RegCounts == {1}
MemSizes == {0, 1}

\* ------------------------------------------------------------ brain-overflow-all.rs

\* Values are BigUint, which has no largest value; main constructs the engine at
\* CpuWidth::Bit1024, scaled here to WordBits bits.  usize is wider than that
\* width, and wider than the largest shift whose result fits in memory.
UsizeMaxBig == 2^(WordBits + 1) - 1
AllocLimitBig == 2^WordBits

\* CPU::new of brain-overflow-all.rs: registers R0..R(reg_count - 1)
new_big(b, reg_count, mem_size) ==
    /\ registers = [r \in {RegName(i) : i \in 0..(reg_count - 1)} |-> 0]
    /\ bits = b
    /\ flags = [f \in FlagNames |-> FALSE]
    /\ memory = [a \in 1..mem_size |-> 0]

\* CPU::mask of brain-overflow-all.rs, the arm of the width main constructs
mask_big == CASE bits = "Bit1024" -> 2^WordBits - 1

\* CPU::to_masked of brain-overflow-all.rs: value & mask on unbounded naturals
to_masked_big(value) == value % (mask_big + 1)

\* parse_biguint: BigUint::parse_bytes(s, 10), zero for what does not parse
parse_biguint(s) ==
    LET digits == IF Len(s) > 0 /\ s[1] = "+" THEN Tail(s) ELSE s
        n == IF digits = <<>> THEN -1 ELSE ParseDigits(digits, 10, 0, 2^30)
    IN  IF n < 0 THEN 0 ELSE n

\* parts[2].parse::<usize>().unwrap_or(0)
parse_usize_or0(s) ==
    LET digits == IF Len(s) > 0 /\ s[1] = "+" THEN Tail(s) ELSE s
        n == IF digits = <<>> THEN -1 ELSE ParseDigits(digits, 10, 0, UsizeMaxBig)
    IN  IF n < 0 THEN 0 ELSE n

\* a method returned and the loop goes on to the next line
Done == outcome' = "Ok" /\ UNCHANGED bits

\* registers.insert(reg, to_masked(result)); set_flag("ZERO", result.is_zero())
WriteRegZero(reg, result) ==
    /\ registers' = Insert(registers, reg, to_masked_big(result))
    /\ flags' = set_flag(flags, "ZERO", result = 0)
    /\ UNCHANGED memory
    /\ Done

\* CPU::add
add(reg, val) ==
    IF reg \notin DOMAIN registers THEN Panic
    ELSE WriteRegZero(reg, registers[reg] + val)

\* CPU::sub
sub(reg, val) ==
    IF reg \notin DOMAIN registers THEN Panic
    ELSE WriteRegZero(reg, IF registers[reg] >= val THEN registers[reg] - val ELSE 0)

\* CPU::mul
mul(reg, val) ==
    IF reg \notin DOMAIN registers THEN Panic
    ELSE WriteRegZero(reg, registers[reg] * val)

\* CPU::div
div(reg, val) ==
    IF val = 0 THEN Done /\ UNCHANGED <<registers, flags, memory>>
    ELSE IF reg \notin DOMAIN registers THEN Panic
    ELSE WriteRegZero(reg, registers[reg] \div val)

\* a & b, a | b, a ^ b on BigUint: on as many bits as the widest literal typed has
BigBits == WordBits + 2
BigAnd(a, b) == BitFold(<<<<0, 0>>, <<0, 1>>>>, a, b, BigBits)
BigOr(a, b) == BitFold(<<<<0, 1>>, <<1, 1>>>>, a, b, BigBits)
BigXor(a, b) == BitFold(<<<<0, 1>>, <<1, 0>>>>, a, b, BigBits)

\* CPU::bitwise_op
bitwise_op(reg, val, op) ==
    IF reg \notin DOMAIN registers THEN Panic
    ELSE WriteRegZero(reg,
            CASE op = AND -> BigAnd(registers[reg], val)
              [] op = OR -> BigOr(registers[reg], val)
              [] op = XOR -> BigXor(registers[reg], val)
              [] OTHER -> registers[reg])

\* CPU::shl: BigUint << usize allocates the shifted digits, which fails (the
\* process aborts) for a nonzero value and a shift past what memory holds
shl(reg, n) ==
    IF reg \notin DOMAIN registers THEN Panic
    ELSE IF registers[reg] # 0 /\ n >= AllocLimitBig THEN Panic
    ELSE /\ registers' = Insert(registers, reg, to_masked_big(registers[reg] * 2^n))
         /\ UNCHANGED <<flags, memory>>
         /\ Done

\* CPU::shr
shr(reg, n) ==
    IF reg \notin DOMAIN registers THEN Panic
    ELSE /\ registers' = Insert(registers, reg, to_masked_big(registers[reg] \div 2^n))
         /\ UNCHANGED <<flags, memory>>
         /\ Done

\* CPU::load
load(reg, addr) ==
    IF addr < Len(memory)
    THEN /\ registers' = Insert(registers, reg, memory[addr + 1])
         /\ UNCHANGED <<flags, memory>>
         /\ Done
    ELSE Done /\ UNCHANGED <<registers, flags, memory>>

\* CPU::store
store(reg, addr) ==
    IF addr < Len(memory)
    THEN IF reg \notin DOMAIN registers THEN Panic
         ELSE /\ memory' = [memory EXCEPT ![addr + 1] = to_masked_big(registers[reg])]
              /\ UNCHANGED <<registers, flags>>
              /\ Done
    ELSE Done /\ UNCHANGED <<registers, flags, memory>>

EXIT_CMD == <<"E", "X", "I", "T">>
STATE_CMD == <<"S", "T", "A", "T", "E">>

\* parts[1] and parts[2] exist
HasOperands(parts) == HasPart(parts, 1) /\ HasPart(parts, 2)

\* the commands main matches, besides which it prints "Unknown instruction"
Commands ==
    {EXIT_CMD, ADD, SUB, MUL, DIV, AND, OR, XOR, SHL, SHR, LOAD, STORE, STATE_CMD}

\* the loop of main has neither broken on EXIT nor ended in a panic
Looping == outcome \notin {"panic", "exit"}

\* one round of the loop of main on parts, the tokens of the line read
main_loop(parts) ==
    \/ Looping /\ parts = <<>> /\ Done /\ UNCHANGED <<registers, flags, memory>>
    \/ /\ Looping /\ OpOf(parts) = EXIT_CMD
       /\ outcome' = "exit" /\ UNCHANGED <<registers, bits, flags, memory>>
    \/ /\ Looping /\ OpOf(parts) = ADD
       /\ IF HasOperands(parts)
          THEN add(Part(parts, 1), parse_biguint(Part(parts, 2))) ELSE Panic
    \/ /\ Looping /\ OpOf(parts) = SUB
       /\ IF HasOperands(parts)
          THEN sub(Part(parts, 1), parse_biguint(Part(parts, 2))) ELSE Panic
    \/ /\ Looping /\ OpOf(parts) = MUL
       /\ IF HasOperands(parts)
          THEN mul(Part(parts, 1), parse_biguint(Part(parts, 2))) ELSE Panic
    \/ /\ Looping /\ OpOf(parts) = DIV
       /\ IF HasOperands(parts)
          THEN div(Part(parts, 1), parse_biguint(Part(parts, 2))) ELSE Panic
    \/ /\ Looping /\ OpOf(parts) \in {AND, OR, XOR}
       /\ IF HasOperands(parts)
          THEN bitwise_op(Part(parts, 1), parse_biguint(Part(parts, 2)), OpOf(parts))
          ELSE Panic
    \/ /\ Looping /\ OpOf(parts) = SHL
       /\ IF HasOperands(parts)
          THEN shl(Part(parts, 1), parse_usize_or0(Part(parts, 2))) ELSE Panic
    \/ /\ Looping /\ OpOf(parts) = SHR
       /\ IF HasOperands(parts)
          THEN shr(Part(parts, 1), parse_usize_or0(Part(parts, 2))) ELSE Panic
    \/ /\ Looping /\ OpOf(parts) = LOAD
       /\ IF HasOperands(parts)
          THEN load(Part(parts, 1), parse_usize_or0(Part(parts, 2))) ELSE Panic
    \/ /\ Looping /\ OpOf(parts) = STORE
       /\ IF HasOperands(parts)
          THEN store(Part(parts, 1), parse_usize_or0(Part(parts, 2))) ELSE Panic
    \/ Looping /\ OpOf(parts) = STATE_CMD /\ Done /\ UNCHANGED <<registers, flags, memory>>
    \/ /\ Looping /\ parts # <<>> /\ OpOf(parts) \notin Commands
       /\ outcome' = "Unknown instruction"
       /\ UNCHANGED <<registers, bits, flags, memory>>

\* ------------------------------------------------------------ inputs of main

R0 == RegName(0)

OpcodesBig == {ADD, SUB, MUL, DIV, AND, OR, XOR, SHL, SHR, LOAD, STORE}

\* the literals typed: 0, 1, 2, the scaled width, the first value past the
\* mask, the largest shift that fits, the first that does not, one past usize
ImmValuesBig ==
    {0, 1, 2, WordBits, 2^WordBits, AllocLimitBig - 1, AllocLimitBig,
     UsizeMaxBig + 1}

Inputs ==
    {<<>>, <<EXIT_CMD>>, <<STATE_CMD>>, <<MOV, R0, <<"1">>>>, <<<<"a", "d", "d">>, R0, <<"1">>>>}
        \cup {<<o>> : o \in OpcodesBig} \cup {<<o, R0>> : o \in OpcodesBig}
        \cup {<<o, a, ToDec(n)>> : o \in OpcodesBig, a \in {R0, R1}, n \in ImmValuesBig}
        \cup {<<o, R0, b>> : o \in OpcodesBig, b \in {R0, <<"-", "1">>}}

\* ------------------------------------------------------------ i32 arithmetic

\* bits of i32, the integer of instructions_set.rs and 2'file.calculate.rs: the
\* product of two values of WordBits bits fits, as 8-bit products fit in i32
I32Bits == 2 * WordBits + 1

I32_MIN == -(2^(I32Bits - 1))
I32_MAX == 2^(I32Bits - 1) - 1

\* the bit pattern of an i32 read as unsigned (`as u32`), and back (`as i32`)
as_u32(x) == x % 2^I32Bits
as_i32(u) ==
    IF u % 2^I32Bits > I32_MAX THEN (u % 2^I32Bits) - 2^I32Bits ELSE u % 2^I32Bits

\* the outcome of an operator that can overflow
Overflow == ErrVal("overflow")

\* +, - and * on i32, n being the exact result: out of range, the build with
\* overflow checks panics and the build without them wraps
Checked(n) ==
    IF n \in I32_MIN..I32_MAX THEN {OkVal(n)} ELSE {Overflow, OkVal(as_i32(n))}

\* x << n on i32: an amount outside 0 .. 31 overflows (panic, or the amount
\* wraps to the bit size); bits shifted out are dropped
shl_i32(x, n) ==
    IF n \in 0..(I32Bits - 1) THEN {OkVal(as_i32(as_u32(x) * 2^n))}
    ELSE {Overflow, OkVal(as_i32(as_u32(x) * 2^(n % I32Bits)))}

\* (x as u32 >> n) as i32
shr_u32(x, n) ==
    IF n \in 0..(I32Bits - 1) THEN {OkVal(as_i32(as_u32(x) \div 2^n))}
    ELSE {Overflow, OkVal(as_i32(as_u32(x) \div 2^(n % I32Bits)))}

\* x / y on i32, y # 0: the quotient truncates toward zero; i32::MIN / -1
\* panics in every build
div_i32(x, y) ==
    IF x = I32_MIN /\ y = -1 THEN {Overflow}
    ELSE LET ax == IF x < 0 THEN -x ELSE x
             ay == IF y < 0 THEN -y ELSE y
         IN  {OkVal(IF (x < 0) = (y < 0) THEN ax \div ay ELSE -(ax \div ay))}

\* x & y, x | y, x ^ y and !x on the two's-complement bit patterns
and_i32(x, y) == as_i32(BitFold(<<<<0, 0>>, <<0, 1>>>>, as_u32(x), as_u32(y), I32Bits))
or_i32(x, y) == as_i32(BitFold(<<<<0, 1>>, <<1, 1>>>>, as_u32(x), as_u32(y), I32Bits))
xor_i32(x, y) == as_i32(BitFold(<<<<0, 1>>, <<1, 0>>>>, as_u32(x), as_u32(y), I32Bits))
not_i32(x) == -x - 1

\* ------------------------------------------------------------ 2'file.calculate.rs

\* fn mask: (1 << bits) - 1
mask_i32(b) ==
    UNION {IF p.ok THEN Checked(p.v - 1) ELSE {p} : p \in shl_i32(1, b)}

\* fn to_twos_complement: value & mask(bits)
to_twos_complement(value, b) ==
    {IF m.ok THEN OkVal(and_i32(value, m.v)) ELSE m : m \in mask_i32(b)}

\* fn from_twos_complement; `bits - 1` is a u32 subtraction
from_twos_complement(value, b) ==
    LET sign_bit == IF b = 0 THEN {Overflow, OkVal(as_i32(2^(I32Bits - 1)))}
                    ELSE shl_i32(1, b - 1)
        minus == UNION {IF p.ok THEN Checked(value - p.v) ELSE {p} :
                           p \in shl_i32(1, b)}
    IN  UNION {IF ~s.ok THEN {s}
               ELSE IF and_i32(value, s.v) # 0 THEN minus ELSE {OkVal(value)} :
                  s \in sign_bit}

\* ------------------------------------------------------------ instructions_set.rs

\* the registers CPU::new inserts: `for i in 1..=8`, two of them at this scale
RegCountI32 == 2

\* CPU::new(bits): the registers at 0; the engine has no flags and no memory
new_i32(b) ==
    /\ registers = [r \in {RegName(i) : i \in 1..RegCountI32} |-> 0]
    /\ bits = b
    /\ flags = <<>>
    /\ memory = <<>>

\* CPU::mask and CPU::to_twos_complement
mask_self == mask_i32(bits)
to_twos_complement_self(value) == to_twos_complement(value, bits)

\* str::parse::<i32>: an optional sign, then at least one digit, the value in
\* i32::MIN .. i32::MAX
parse_i32(s) ==
    LET neg == Len(s) > 0 /\ s[1] = "-"
        digits == IF Len(s) > 0 /\ s[1] \in {"+", "-"} THEN Tail(s) ELSE s
        n == IF digits = <<>> THEN -1
             ELSE ParseDigits(digits, 10, 0, IF neg THEN -I32_MIN ELSE I32_MAX)
    IN  IF n < 0 THEN ErrVal("Invalid immediate value")
        ELSE OkVal(IF neg THEN -n ELSE n)

\* CPU::get_value
get_value_i32(operand) ==
    IF starts_with(operand, <<"R">>)
    THEN IF operand \in DOMAIN registers
         THEN OkVal(registers[operand])
         ELSE ErrVal("Register not found")
    ELSE parse_i32(operand)

\* self.registers.insert(reg, self.to_twos_complement(r)) for an outcome r of
\* the arm's expression; an overflow under overflow checks is a panic
InsertTC(reg, results) ==
    \E r \in UNION {IF x.ok THEN to_twos_complement_self(x.v) ELSE {x} :
                      x \in results} :
        IF r.ok THEN WriteReg(reg, r.v) /\ UNCHANGED flags ELSE Panic

\* "MOV" arm: insert adds the register when the file does not hold it
i32_MOV(parts) ==
    IF ~HasPart(parts, 1) \/ ~HasPart(parts, 2) THEN Panic
    ELSE LET reg == trim_end_matches(Part(parts, 1), ",")
             val == get_value_i32(Part(parts, 2))
         IN  IF ~val.ok THEN Err(val.err) ELSE InsertTC(reg, {OkVal(val.v)})

\* the outcomes of the operator of an arm on the register's value x and val
i32_op(op, x, val) ==
    CASE op = ADD -> Checked(x + val)
      [] op = SUB -> Checked(x - val)
      [] op = MUL -> Checked(x * val)
      [] op = AND -> {OkVal(and_i32(x, val))}
      [] op = OR -> {OkVal(or_i32(x, val))}
      [] op = XOR -> {OkVal(xor_i32(x, val))}
      [] op = SHL -> shl_i32(x, val)
      [] op = SHR -> shr_u32(x, val)

\* the arms `reg = parts[1].trim_end_matches(','); val = get_value(parts[2])?;
\* insert(reg, to_twos_complement(self.registers[reg] <op> val))`
i32_Arm(parts) ==
    IF ~HasPart(parts, 1) \/ ~HasPart(parts, 2) THEN Panic
    ELSE LET reg == trim_end_matches(Part(parts, 1), ",")
             val == get_value_i32(Part(parts, 2))
         IN  IF ~val.ok THEN Err(val.err)
             ELSE IF reg \notin DOMAIN registers THEN Panic
             ELSE InsertTC(reg, i32_op(OpOf(parts), registers[reg], val.v))

i32_ADD(parts) == i32_Arm(parts)
i32_SUB(parts) == i32_Arm(parts)
i32_MUL(parts) == i32_Arm(parts)
i32_AND(parts) == i32_Arm(parts)
i32_OR(parts) == i32_Arm(parts)
i32_XOR(parts) == i32_Arm(parts)
i32_SHL(parts) == i32_Arm(parts)
i32_SHR(parts) == i32_Arm(parts)

\* "DIV" arm: the zero check comes before the register is read
i32_DIV(parts) ==
    IF ~HasPart(parts, 1) \/ ~HasPart(parts, 2) THEN Panic
    ELSE LET reg == trim_end_matches(Part(parts, 1), ",")
             val == get_value_i32(Part(parts, 2))
         IN  IF ~val.ok THEN Err(val.err)
             ELSE IF val.v = 0 THEN Err("Division by zero")
             ELSE IF reg \notin DOMAIN registers THEN Panic
             ELSE InsertTC(reg, div_i32(registers[reg], val.v))

\* "NOT" arm: parts[1] is used as it is, without trim_end_matches
i32_NOT(parts) ==
    IF ~HasPart(parts, 1) THEN Panic
    ELSE IF Part(parts, 1) \notin DOMAIN registers THEN Panic
    ELSE InsertTC(Part(parts, 1), {OkVal(not_i32(registers[Part(parts, 1)]))})

\* the opcode strings of the match: there is no LOAD and no STORE
OpcodesI32 == {MOV, ADD, SUB, MUL, DIV, AND, OR, XOR, NOT, SHL, SHR}

\* CPU::execute of instructions_set.rs, called by a running process
execute_i32(parts) ==
    \/ Running /\ parts = <<>> /\ Err("Empty instruction")
    \/ Running /\ OpOf(parts) = MOV /\ i32_MOV(parts)
    \/ Running /\ OpOf(parts) = ADD /\ i32_ADD(parts)
    \/ Running /\ OpOf(parts) = SUB /\ i32_SUB(parts)
    \/ Running /\ OpOf(parts) = MUL /\ i32_MUL(parts)
    \/ Running /\ OpOf(parts) = DIV /\ i32_DIV(parts)
    \/ Running /\ OpOf(parts) = AND /\ i32_AND(parts)
    \/ Running /\ OpOf(parts) = OR /\ i32_OR(parts)
    \/ Running /\ OpOf(parts) = XOR /\ i32_XOR(parts)
    \/ Running /\ OpOf(parts) = NOT /\ i32_NOT(parts)
    \/ Running /\ OpOf(parts) = SHL /\ i32_SHL(parts)
    \/ Running /\ OpOf(parts) = SHR /\ i32_SHR(parts)
    \/ /\ Running /\ parts # <<>> /\ OpOf(parts) \notin OpcodesI32
       /\ Err("Unknown instruction")

\* ------------------------------------------------------------ inputs of instructions_set.rs

\* the decimal text of an i32
ToDecI32(n) == IF n < 0 THEN <<"-">> \o ToDec(-n) ELSE ToDec(n)

\* the values given as immediates: 0, 1, the width, the mask, the bit size of
\* i32, the largest and the smallest i32, and -1
ImmValuesI32 == {0, 1, WordBits, 2^WordBits - 1, I32Bits, I32_MAX, -1, I32_MIN}

\* parts[1]: the registers of the file and a name that is not in it
FirstTokensI32 == {RegName(i) : i \in 1..(RegCountI32 + 1)}

\* parts[2] that get_value resolves, and those it rejects: a name never in the
\* file, a literal one past i32::MAX, a hex literal
GoodSecondTokensI32 == {R2} \cup {ToDecI32(n) : n \in ImmValuesI32}
BadSecondTokensI32 == {RegName(RegCountI32 + 2), ToDec(I32_MAX + 1), <<"0", "x", "1">>}

InstructionsI32 ==
    {<<>>, <<LOAD, R1, <<"0">>>>, <<NOT, R1 \o <<",">>>>}
        \cup {<<o>> : o \in OpcodesI32} \cup {<<o, R1>> : o \in OpcodesI32}
        \cup {<<o, a, b>> : o \in OpcodesI32, a \in FirstTokensI32,
                            b \in GoodSecondTokensI32}
        \cup {<<o, R1, b>> : o \in OpcodesI32, b \in BadSecondTokensI32}

\* the widths CPU::new is called with: 0, and the 8 of main at this scale
WidthsI32 == {0, WordBits}

\* ------------------------------------------------------------ calls of the calculator's functions

\* The functions of 2'file.calculate.rs are applied one after another, each to
\* the value the one before returned, at the width read at the start: bits is
\* that width, registers the sequence of the value typed and the values
\* returned since, memory the names of the functions called, outcome the name
\* of the last one, or "panic" when it overflowed under overflow checks.

\* a function returned the outcome r
Returned(fn, r) ==
    /\ memory' = Append(memory, fn)
    /\ registers' = IF r.ok THEN Append(registers, r.v) ELSE registers
    /\ outcome' = IF r.ok THEN fn ELSE "panic"
    /\ UNCHANGED <<bits, flags>>

\* the calls followed from one input
MaxCalls == 2

Calling == outcome # "panic" /\ Len(memory) < MaxCalls

call_mask == Calling /\ \E r \in mask_i32(bits) : Returned("mask", r)

call_to_twos_complement ==
    /\ Calling
    /\ \E r \in to_twos_complement(registers[Len(registers)], bits) :
          Returned("to_twos_complement", r)

call_from_twos_complement ==
    /\ Calling
    /\ \E r \in from_twos_complement(registers[Len(registers)], bits) :
          Returned("from_twos_complement", r)

\* the widths typed (a u32): 0 up to one past the bit size of i32
WidthsTyped == 0..(I32Bits + 1)

\* ------------------------------------------------------------ specification

Init ==
    /\ \E b \in CpuWidths, reg_count \in RegCounts, mem_size \in MemSizes :
           new(b, reg_count, mem_size)
    /\ outcome = "new"

\* the caller submits one instruction after another, until a panic ends the process
Next == \E instruction \in Instructions : execute(instruction)

Spec == Init /\ [][Next]_vars

\* main of brain-overflow-all.rs: CPU::new(CpuWidth::Bit1024, 16, 1024), with one
\* register and one memory cell at this scale
InitBO ==
    /\ new_big("Bit1024", 1, 1)
    /\ outcome = "new"

\* the loop reads one line after another, until EXIT or a panic
NextBO == \E input \in Inputs : main_loop(input)

SpecBO == InitBO /\ [][NextBO]_vars

\* instructions_set.rs: a CPU after new, then any sequence of execute calls
InitI32 ==
    /\ \E b \in WidthsI32 : new_i32(b)
    /\ outcome = "new"

NextI32 == \E instruction \in InstructionsI32 : execute_i32(instruction)

SpecI32 == InitI32 /\ [][NextI32]_vars

\* 2'file.calculate.rs: a width and an i32 are read, then the functions are called
InitCalc ==
    /\ bits \in WidthsTyped
    /\ \E value \in I32_MIN..I32_MAX : registers = <<value>>
    /\ flags = <<>>
    /\ memory = <<>>
    /\ outcome = "input"

NextCalc == call_mask \/ call_to_twos_complement \/ call_from_twos_complement

SpecCalc == InitCalc /\ [][NextCalc]_vars

\* till-128.rs with two memory cells, at the widths narrower than the storage
\* integer
InitMem ==
    /\ \E b \in CpuWidths \ {"Bit128"} : new(b, 1, 2)
    /\ outcome = "new"

\* the instructions on two registers, with both addresses, a register and a
\* name not in the file as second operand, and the lines that are no instruction
MemInstructions ==
    {<<>>, <<<<"J", "M", "P">>>>, <<NOT, R1>>}
        \cup {<<o, a, b>> : o \in Opcodes, a \in FirstTokens,
                            b \in {R1, R3, ToDec(0), ToDec(1)}}

NextMem == \E instruction \in MemInstructions : execute(instruction)

SpecMem == InitMem /\ [][NextMem]_vars

\* ------------------------------------------------------------ claims

\* the configured bit count and the largest value it holds
Width == WidthOf(bits)
MaxValue == 2^Width - 1

\* what execute returns as Err
Errors ==
    {"Empty instruction", "Unknown instruction", "Register not found",
     "Invalid hex", "Invalid number", "Division by zero", "Memory out of bounds"}

\* registers, flags and memory are what they were before the call
StateKept == registers' = registers /\ flags' = flags /\ memory' = memory

\* the three-token instructions of one opcode
InstructionsOf(op) == {ins \in Instructions : Len(ins) = 3 /\ OpOf(ins) = op}
InputsOf(op) == {ins \in Inputs : Len(ins) = 3 /\ OpOf(ins) = op}

\* parts[1] as the arms of execute use it
RegOf(ins) == trim_end_matches(Part(ins, 1), ",")

\* C1: at every width, after any sequence of execute calls, every register and
\* every memory cell holds a value in 0 .. 2^width - 1.
C1_ValuesInRange ==
    /\ \A r \in DOMAIN registers : registers[r] \in 0..MaxValue
    /\ \A a \in DOMAIN memory : memory[a] \in 0..MaxValue

\* C1 witness: at a width narrower than the storage integer, an instruction has
\* succeeded and a register inserted later and a memory cell hold the largest value
C1_Witness ==
    /\ bits = "Bit64" /\ outcome = "Ok"
    /\ R2 \in DOMAIN registers /\ registers[R2] = MaxValue
    /\ Len(memory) = 1 /\ memory[1] = MaxValue
    /\ flags["CARRY"]

\* C2: whenever execute returns an error, registers, flags and memory are what
\* they were before the call.
C2_ErrorKeepsState == [][outcome' \in Errors => StateKept]_vars

\* C2 witness: an error has been returned by an engine whose registers, flags
\* and memory all differ from their values after construction
C2_Witness ==
    /\ outcome \in Errors
    /\ registers[R1] # 0 /\ R2 \in DOMAIN registers
    /\ flags["CARRY"] /\ flags["ZERO"]
    /\ Len(memory) = 1 /\ memory[1] # 0

\* C3: every instruction completes by returning success or an error; none ends
\* the engine in an unrecoverable fault.
C3_NoPanic == outcome # "panic"

\* C4: the set of register names is the one of construction in every state:
\* no execute call adds or removes a register.
C4_KeysFixed == [][DOMAIN registers' = DOMAIN registers]_vars

\* C5: DIV whose second operand resolves to zero reports the division-by-zero
\* error and leaves all state unchanged (the loop of main on the BigUint engine).
C5_DivByZero ==
    [][\A ins \in InputsOf(DIV) :
          (parse_biguint(Part(ins, 2)) = 0 /\ main_loop(ins))
              => (outcome' = "Division by zero" /\ StateKept)]_vars

\* C6: STORE of a register of the file with an address >= memory_size returns
\* the out-of-bounds error and leaves every memory cell and register unchanged.
C6_StoreOutOfBounds ==
    [][\A ins \in InstructionsOf(STORE) :
          (/\ RegOf(ins) \in DOMAIN registers
           /\ get_value(Part(ins, 2)).ok
           /\ get_value(Part(ins, 2)).v >= Len(memory)
           /\ execute(ins))
              => (outcome' = "Memory out of bounds" /\ StateKept)]_vars

\* C7: LOAD with an address >= memory_size returns the out-of-bounds error and
\* leaves the target register and memory unchanged.
C7_LoadOutOfBounds ==
    [][\A ins \in InstructionsOf(LOAD) :
          (/\ get_value(Part(ins, 2)).ok
           /\ get_value(Part(ins, 2)).v >= Len(memory)
           /\ execute(ins))
              => (outcome' = "Memory out of bounds" /\ StateKept)]_vars

\* C8: a successful ADD on a register holding a with operand value b stores
\* (a + b) mod 2^width and sets CARRY exactly when a + b >= 2^width.
C8_AddCarry ==
    [][\A ins \in InstructionsOf(ADD) :
          (/\ get_value(Part(ins, 2)).ok
           /\ RegOf(ins) \in DOMAIN registers
           /\ execute(ins) /\ outcome' = "Ok")
              => LET sum == registers[RegOf(ins)] + get_value(Part(ins, 2)).v
                 IN  /\ registers'[RegOf(ins)] = sum % 2^Width
                     /\ flags'["CARRY"] = (sum >= 2^Width)]_vars

\* C9: a successful SUB on a register holding a with operand value b stores
\* (a - b) mod 2^width and sets CARRY exactly when a < b (the BigUint engine).
C9_SubBorrow ==
    [][\A ins \in InputsOf(SUB) :
          (/\ Part(ins, 1) \in DOMAIN registers
           /\ main_loop(ins) /\ outcome' = "Ok")
              => LET a == registers[Part(ins, 1)]
                     b == parse_biguint(Part(ins, 2))
                 IN  /\ registers'[Part(ins, 1)] = (a - b) % (mask_big + 1)
                     /\ flags'["CARRY"] = (a < b)]_vars

\* C10: after every successful ADD or SUB, ZERO is true exactly when the target
\* register now holds 0.
C10_ZeroAfterMask ==
    [][\A ins \in InstructionsOf(ADD) \cup InstructionsOf(SUB) :
          (/\ RegOf(ins) \in DOMAIN registers
           /\ execute(ins) /\ outcome' = "Ok")
              => flags'["ZERO"] = (registers'[RegOf(ins)] = 0)]_vars

\* C11: for every a and b in 0 .. 2^width - 1, ADD Rk b followed by SUB Rk b
\* leaves Rk holding a again, also when the addition wraps (the loop of main on
\* the BigUint engine): in no state can ADD succeed and lead to a state where
\* SUB of the same operand succeeds and leaves another value than a.
C11_AddSubRoundTrip ==
    \A ins \in InputsOf(ADD) :
        Part(ins, 1) \in DOMAIN registers =>
            \A a \in {registers[Part(ins, 1)]} :
                ~ ENABLED (/\ main_loop(ins) /\ outcome' = "Ok"
                           /\ (ENABLED (/\ main_loop(<<SUB, Part(ins, 1), Part(ins, 2)>>)
                                        /\ outcome' = "Ok"
                                        /\ registers'[Part(ins, 1)] # a))')

\* C12: SHL and SHR of a register of the file by an amount >= width succeed
\* and leave the register holding 0, also when the amount reaches or exceeds
\* the bit size of the storage integer.
C12_ShiftPastWidth ==
    [][\A ins \in InstructionsOf(SHL) \cup InstructionsOf(SHR) :
          (/\ RegOf(ins) \in DOMAIN registers
           /\ get_value(Part(ins, 2)).ok
           /\ get_value(Part(ins, 2)).v >= Width
           /\ execute(ins))
              => (outcome' = "Ok" /\ registers'[RegOf(ins)] = 0)]_vars

\* an operand that names a register the file does not hold: the first operand
\* is always a register name, the second is one when it starts with 'R'
UnknownFirst(ins) == RegOf(ins) \notin DOMAIN registers
UnknownSecond(ins) ==
    starts_with(Part(ins, 2), <<"R">>) /\ Part(ins, 2) \notin DOMAIN registers

\* C13: an instruction whose first or second operand names a register that is
\* not in the file returns the unknown-register error and changes no state
\* (the second operand is otherwise a value that resolves).
C13_UnknownRegister ==
    [][\A ins \in Instructions :
          (/\ Len(ins) = 3 /\ OpOf(ins) \in Opcodes
           /\ UnknownFirst(ins) \/ UnknownSecond(ins)
           /\ UnknownSecond(ins) \/ get_value(Part(ins, 2)).ok
           /\ execute(ins))
              => (outcome' = "Register not found" /\ StateKept)]_vars

\* a "-" followed by digits
NegativeLiteral(s) ==
    Len(s) > 1 /\ s[1] = "-" /\ \A i \in 2..Len(s) : DigitVal(s[i]) < 10

\* C14: an instruction whose immediate operand is a negative literal such as
\* "-1" is rejected with the invalid-operand error and changes no state (the
\* i32 engine).
C14_NegativeLiteral ==
    [][\A ins \in InstructionsI32 :
          (/\ Len(ins) = 3 /\ OpOf(ins) \in OpcodesI32
           /\ NegativeLiteral(Part(ins, 2))
           /\ RegOf(ins) \in DOMAIN registers
           /\ execute_i32(ins))
              => (outcome' = "Invalid immediate value" /\ StateKept)]_vars

\* C15: construction fails when the width is 0 or the register count is 0, so
\* that no engine with zero width or an empty register file exists (the i32
\* engine, whose width is a bit count).
C15_ValidConfiguration == bits >= 1 /\ DOMAIN registers # {}

\* the value typed, and the value the second call returned
Typed == registers[1]
Final == registers[3]

\* C16: at every width w >= 1, for every signed v in -2^(w-1) .. 2^(w-1) - 1
\* from_twos_complement(to_twos_complement(v, w), w) returns v, and for every
\* magnitude m in 0 .. 2^w - 1 to_twos_complement(from_twos_complement(m, w), w)
\* returns m: both calls return and the second returns the value typed.
C16_TwosComplementRoundTrip ==
    /\ (/\ bits >= 1 /\ Typed \in -(2^(bits - 1))..(2^(bits - 1) - 1)
        /\ \/ memory = <<"to_twos_complement">>
           \/ memory = <<"to_twos_complement", "from_twos_complement">>)
           => /\ outcome # "panic"
              /\ Len(memory) = 2 => Final = Typed
    /\ (/\ bits >= 1 /\ Typed \in 0..(2^bits - 1)
        /\ \/ memory = <<"from_twos_complement">>
           \/ memory = <<"from_twos_complement", "to_twos_complement">>)
           => /\ outcome # "panic"
              /\ Len(memory) = 2 => Final = Typed

\* C17: for every width the integer-typed mask function accepts, mask returns
\* exactly 2^w - 1, without overflow.
C17_MaskExact ==
    (Len(memory) >= 1 /\ memory[1] = "mask")
        => (Len(registers) >= 2 /\ registers[2] = 2^bits - 1)

\* the address a STORE or LOAD instruction resolves to
AddrOf(ins) == as_usize(get_value(Part(ins, 2)).v)

\* C18: memory changes only through a successful STORE: every other
\* instruction, and every failing one, leaves each cell as it was; a successful
\* STORE changes at most the cell it addresses; the number of cells never changes.
C18_MemoryFrame ==
    [][/\ Len(memory') = Len(memory)
       /\ memory' # memory =>
            \A ins \in MemInstructions :
                execute(ins) =>
                    /\ Len(ins) = 3 /\ OpOf(ins) = STORE /\ outcome' = "Ok"
                    /\ \A a \in DOMAIN memory :
                          a # AddrOf(ins) + 1 => memory'[a] = memory[a]]_vars

\* C18 witness: after a successful STORE to the second cell, with the first
\* cell still at 0 and a register that other instructions have written
C18_Witness ==
    /\ outcome = "Ok" /\ Len(memory) = 2
    /\ memory[1] = 0 /\ memory[2] # 0
    /\ R2 \in DOMAIN registers /\ registers[R2] # 0

\* the registers other than reg are the ones held before, with their values
OthersKept(reg) ==
    /\ DOMAIN registers' \ {reg} = DOMAIN registers \ {reg}
    /\ \A r \in DOMAIN registers \ {reg} : registers'[r] = registers[r]

\* C19: a successful instruction changes at most the register named by its
\* first operand: in no state can an instruction return Ok and leave another
\* register with another value, or add or remove another register.
C19_RegisterFrame ==
    \A ins \in MemInstructions :
        ~ ENABLED (/\ execute(ins) /\ outcome' = "Ok"
                   /\ ~ (Len(ins) >= 2 /\ OthersKept(RegOf(ins))))

\* C19 witness: after successful instructions on both registers (an ADD that
\* wrapped one of them to 0), the two registers hold different values
C19_Witness ==
    /\ outcome = "Ok" /\ flags["CARRY"]
    /\ R2 \in DOMAIN registers
    /\ registers[R1] # registers[R2]

\* the opcodes that write a computed result and are neither ADD nor SUB
ResultOpcodes == {MUL, DIV, AND, OR, XOR, NOT, SHL, SHR}

\* C20: after every successful MUL, DIV, AND, OR, XOR, NOT, SHL or SHR, ZERO is
\* true exactly when the target register now holds 0.
C20_ZeroAfterEveryResult ==
    [][\A ins \in UNION {InstructionsOf(op) : op \in ResultOpcodes} :
          (/\ RegOf(ins) \in DOMAIN registers
           /\ execute(ins) /\ outcome' = "Ok")
              => flags'["ZERO"] = (registers'[RegOf(ins)] = 0)]_vars

\* C21: the flag set is exactly {ZERO, CARRY, OVERFLOW, SIGN} in every state;
\* OVERFLOW and SIGN are false in every state, as no instruction writes them;
\* and only ADD and SUB can change CARRY: in no state can an instruction of
\* another opcode lead to a state with another value of CARRY.
C21_FlagSet ==
    /\ DOMAIN flags = FlagNames
    /\ ~ flags["OVERFLOW"] /\ ~ flags["SIGN"]
    /\ \A ins \in MemInstructions :
          OpOf(ins) \notin {ADD, SUB} =>
              ~ ENABLED (execute(ins) /\ flags'["CARRY"] # flags["CARRY"])

\* C21 witness: a successful SUB has borrowed: CARRY is set and the register
\* holds a result with its sign bit set
C21_Witness ==
    /\ outcome = "Ok" /\ flags["CARRY"] /\ ~ flags["ZERO"]
    /\ registers[R1] >= 2^(Width - 1)

\* the STORE and the LOAD instructions, and an address that is in range
Stores == {ins \in MemInstructions : Len(ins) = 3 /\ OpOf(ins) = STORE}
Loads == {ins \in MemInstructions : Len(ins) = 3 /\ OpOf(ins) = LOAD}
InRange(ins) ==
    get_value(Part(ins, 2)).ok /\ get_value(Part(ins, 2)).v < Len(memory)

\* C22: for every in-range address a, a successful STORE Rs a followed, with
\* no STORE to a in between, by LOAD Rd a leaves Rd holding the value Rs held
\* at the STORE, and a LOAD from a cell never stored to yields 0.  In parts:
\* the cells are 0 after construction; STORE Rs a then LOAD Rd a returns Ok
\* with Rd the value of Rs; a LOAD returns the content of the cell and leaves
\* memory as it is; no instruction but a STORE to a changes the cell a.
C22_StoreLoad ==
    /\ outcome = "new" => \A a \in DOMAIN memory : memory[a] = 0
    /\ \A st \in Stores :
          (RegOf(st) \in DOMAIN registers /\ InRange(st)) =>
              \A v \in {registers[RegOf(st)]} :
                  /\ ~ ENABLED (execute(st) /\ outcome' # "Ok")
                  /\ \A ld \in Loads :
                        Part(ld, 2) = Part(st, 2) =>
                            ~ ENABLED (/\ execute(st)
                                       /\ (ENABLED (/\ execute(ld)
                                                    /\ ~ (/\ outcome' = "Ok"
                                                          /\ registers'[RegOf(ld)] = v)))')
    /\ \A ld \in Loads :
          InRange(ld) =>
              ~ ENABLED (/\ execute(ld)
                         /\ ~ (/\ outcome' = "Ok"
                               /\ registers'[RegOf(ld)] = memory[AddrOf(ld) + 1]
                               /\ memory' = memory))
    /\ \A ins \in MemInstructions :
          ~ ENABLED (/\ execute(ins)
                     /\ \E a \in DOMAIN memory :
                           /\ memory'[a] # memory[a]
                           /\ ~ (/\ Len(ins) = 3 /\ OpOf(ins) = STORE
                                 /\ a = AddrOf(ins) + 1))

\* C22 witness: the second cell was stored to and then loaded into a register
\* that is not the one stored, which has changed since; the first cell was
\* never stored to
C22_Witness ==
    /\ outcome = "Ok" /\ flags["ZERO"]
    /\ memory[1] = 0 /\ memory[2] # 0
    /\ R2 \in DOMAIN registers /\ registers[R2] = memory[2]
    /\ registers[R1] = 0

====
